---- MODULE Spec2Model ----
(***************************************************************************)
(* Archive.org Wrapped: the listening-history analyzer (analyze.py) and    *)
(* the upload endpoint (app.py).                                           *)
(*                                                                         *)
(* Encoding of values.  Names (artistName, showDate, venue, location,      *)
(* recordingIdentifier, favoriteIdentifier) are naturals >= 1 ordered as   *)
(* the strings they stand for; 0 (NA) is a missing field, which pandas     *)
(* reads as NaN.  listenedOn is [year, doy, hour], doy the day of the year.*)
(* percentListenedTo is kept in hundredths, so duration * pct is the       *)
(* effective listening time in hundredths of a second.                     *)
(***************************************************************************)
EXTENDS Integers, Sequences, FiniteSets, TLC

\* ------------------------------------------------------------------ bounds
MaxRows == 3
MaxSessions == 32
MaxCalls == 2

\* ------------------------------------------------------- program constants
TargetYear == 2025
StreakThreshold == 2
DiscoveryDays == 30
NewArtistsThreshold == 5

NA == 0

RequiredFiles == {"ListeningHistorySummary.tsv", "Favorites.tsv", "DetailedListeningHistory.json"}

\* Columns of ListeningHistorySummary.tsv as read by read_csv.
InputColumns ==
  {"sessionIdentifier", "recordingIdentifier", "artistName", "showDate", "venue",
   "location", "listenedOn", "duration", "percentListenedTo"}

\* ----------------------------------------------------------------- helpers
Range(s) == {s[i] : i \in 1..Len(s)}

Max(a, b) == IF a >= b THEN a ELSE b

SetMin(S) == CHOOSE x \in S : \A y \in S : x <= y

SetMax(S) == CHOOSE x \in S : \A y \in S : x >= y

RECURSIVE SumSeq(_)
SumSeq(s) == IF s = <<>> THEN 0 ELSE Head(s) + SumSeq(Tail(s))

RECURSIVE SortedSeq(_)
\* sorted(...) over a set of integers: ascending sequence.
SortedSeq(S) == IF S = {} THEN <<>> ELSE <<SetMin(S)>> \o SortedSeq(S \ {SetMin(S)})

\* round(num/den, 0) in Python: round half to even.
RoundHalfEven(num, den) ==
  LET q == num \div den
      r == num % den
  IN  IF 2 * r < den THEN q
      ELSE IF 2 * r > den THEN q + 1
      ELSE IF q % 2 = 0 THEN q ELSE q + 1

\* -------------------------------------------------------------- calendar
\* listenedOn.dt.dayofweek for a day of 2025 (Monday = 0); 2025-01-01 is a Wednesday.
DayOfWeek(doy) == (doy + 1) % 7

\* listenedOn.dt.month for a day of 2025.
MonthOf(doy) ==
  IF doy <= 31 THEN 1 ELSE IF doy <= 59 THEN 2 ELSE IF doy <= 90 THEN 3
  ELSE IF doy <= 120 THEN 4 ELSE IF doy <= 151 THEN 5 ELSE IF doy <= 181 THEN 6
  ELSE IF doy <= 212 THEN 7 ELSE IF doy <= 243 THEN 8 ELSE IF doy <= 273 THEN 9
  ELSE IF doy <= 304 THEN 10 ELSE IF doy <= 334 THEN 11 ELSE 12

\* ---------------------------------------------------------------- sessions
Session(sid, rec, artist, show, ven, loc, year, doy, hour, dur, pct) ==
  [sessionIdentifier |-> sid, recordingIdentifier |-> rec, artistName |-> artist,
   showDate |-> show, venue |-> ven, location |-> loc,
   listenedOn |-> [year |-> year, doy |-> doy, hour |-> hour],
   duration |-> dur, percentListenedTo |-> pct]

\* duration * percentListenedTo, in hundredths of a second.
ListeningTime(r) == r.duration * r.percentListenedTo

\* Representative rows of an export; the row at position i of a log gets
\* sessionIdentifier i.
SampleRow(k, sid) ==
  CASE k = 1 -> Session(sid, 1, 1, 1, 1, 1, 2025, 6, 9, 3600, 100)
    [] k = 2 -> Session(sid, 2, 2, 2, 2, 1, 2025, 7, 22, 7200, 50)
    [] k = 3 -> Session(sid, 3, 1, 1, NA, NA, 2025, 11, 9, 1800, 120)
    [] OTHER -> Session(sid, 2, 2, 2, 2, 1, 2024, 7, 13, 3600, 100)

SampleKinds == 1..4

RawTables ==
  UNION {{[i \in 1..n |-> SampleRow(ks[i], i)] : ks \in [1..n -> SampleKinds]} : n \in 0..MaxRows}

Favorite(id, type, year) ==
  [favoriteIdentifier |-> id, favoriteType |-> type, dateAdded |-> [year |-> year]]

RawFavorites ==
  {<<>>,
   <<Favorite(1, "artist", 2024), Favorite(2, "recording", 2025), Favorite(3, "artist", 2026),
     Favorite(4, "artist", 2025)>>}

\* =================================================================== state
VARIABLES
  data_files,        \* names of the files present in the analyzer's data_dir
  raw_summary,       \* rows of ListeningHistorySummary.tsv
  raw_favorites,     \* rows of Favorites.tsv
  analyzer,          \* "new" | "loaded" | "failed"  (progress of load_data)
  summary_df,        \* self.summary_df: the session table
  columns,           \* the columns self.summary_df carries
  favorites_df,      \* self.favorites_df
  result,            \* what the last call returned or raised
  calls,             \* queries made on the analyzer so far
  tie,               \* how this build orders equal keys in an unstable sort
  pc,                \* "script" (analyzer driven by a script) or upload_file's position
  subdir_files,      \* required files lying in subdirectories of data_dir
  temp_dir,          \* "none" | "exists" | "deleted": the request's tempfile.mkdtemp()
  response,          \* what upload_file returns
  static_generated,  \* the files in static/generated
  requests,          \* the upload requests the threaded server is handling
  slide_source       \* for each file in static/generated, the request that rendered it

vars == <<data_files, raw_summary, raw_favorites, analyzer, summary_df, columns,
          favorites_df, result, calls, tie, pc, subdir_files, temp_dir, response,
          static_generated, requests, slide_source>>

uploadVars == <<pc, subdir_files, temp_dir, response, static_generated, requests,
               slide_source>>

\* app.run(..., threaded=True): the requests handled at the same time.
Requests == {1, 2}

TieOrders == {"first", "last"}

NoResult == [query |-> "none", n |-> 0, status |-> "none", exc |-> "", value |-> <<>>]

Returned(q, n, v) == [query |-> q, n |-> n, status |-> "ok", exc |-> "", value |-> v]

Raised(q, n, e, what) == [query |-> q, n |-> n, status |-> "raised", exc |-> e, value |-> what]

\* ---------------------------------------------------------------- load_data
\* df[df[col].dt.year <faulty variant: >= instead of ==> 2025]
FilterYearAtLeast(rows, col) == SelectSeq(rows, LAMBDA r : r[col].year >= TargetYear)

\* df[df[col].dt.year == 2025]
FilterYear(rows, col) == SelectSeq(rows, LAMBDA r : r[col].year = TargetYear)

\* <faulty variant: the detailed history is never opened>
FirstMissingSkipsJson(files) ==
  IF "ListeningHistorySummary.tsv" \notin files THEN "ListeningHistorySummary.tsv"
  ELSE IF "Favorites.tsv" \notin files THEN "Favorites.tsv"
  ELSE ""

\* The first file load_data opens that is not in data_dir, "" when all are there:
\* read_csv(summary), read_csv(favorites), open(detailed), in this order.
FirstMissing(files) ==
  IF "ListeningHistorySummary.tsv" \notin files THEN "ListeningHistorySummary.tsv"
  ELSE IF "Favorites.tsv" \notin files THEN "Favorites.tsv"
  ELSE IF "DetailedListeningHistory.json" \notin files THEN "DetailedListeningHistory.json"
  ELSE ""

\* What load_data leaves in the analyzer: read_csv and open raise FileNotFoundError
\* (carrying the path) on the first missing file; assignments made before it stay.
LoadData(files, summary, favorites) ==
  LET missing == FirstMissing(files)
  IN  [exc       |-> IF missing = "" THEN "" ELSE "FileNotFoundError",
       filename  |-> missing,
       summary   |-> IF "ListeningHistorySummary.tsv" \in files
                     THEN FilterYear(summary, "listenedOn") ELSE <<>>,
       favorites |-> IF missing \in {"", "DetailedListeningHistory.json"}
                     THEN FilterYear(favorites, "dateAdded") ELSE <<>>]

\* The assignments of load_data on a fresh analyzer over `files`.
DoLoad(files) ==
  LET l == LoadData(files, raw_summary, raw_favorites)
  IN  /\ analyzer' = IF l.exc = "" THEN "loaded" ELSE "failed"
      /\ summary_df' = l.summary
      /\ favorites_df' = l.favorites
      /\ columns' = IF "ListeningHistorySummary.tsv" \in files THEN InputColumns ELSE {}
      /\ result' = IF l.exc = "" THEN Returned("load_data", 0, <<>>)
                   ELSE Raised("load_data", 0, l.exc, l.filename)

\* analyzer.load_data() called by a script (analyze.main, test_insights.py).
load_data ==
  /\ pc = "script"
  /\ analyzer = "new"
  /\ DoLoad(data_files)
  /\ UNCHANGED <<data_files, raw_summary, raw_favorites, calls, tie>>
  /\ UNCHANGED uploadVars

\* ------------------------------------------------------------- aggregation
RECURSIVE TotalListening(_)
\* (df['duration'] * df['percentListenedTo']).sum(), hundredths of a second.
TotalListening(rows) ==
  IF rows = <<>> THEN 0 ELSE ListeningTime(Head(rows)) + TotalListening(Tail(rows))

\* Series.count(): the rows whose field is not NaN.
CountOf(rows, col) == Len(SelectSeq(rows, LAMBDA r : r[col] # NA))

\* The value of a grouping or derived column in a row. day_of_week is the
\* position in day_order (Monday = 1). show_id stands for the six groupby keys of
\* get_top_shows as one ordered key; NaN in any of them (show_id is NaN when
\* artistName, showDate or venue is) drops the row.
KeyOf(r, key) ==
  CASE key = "artistName"  -> r.artistName
    [] key = "venue"       -> r.venue
    [] key = "hour"        -> r.listenedOn.hour
    [] key = "date"        -> r.listenedOn.doy
    [] key = "day_of_week" -> DayOfWeek(r.listenedOn.doy) + 1
    [] key = "year_month"  -> MonthOf(r.listenedOn.doy)
    [] key = "month"       -> MonthOf(r.listenedOn.doy)
    [] key = "show_id"     ->
         IF NA \in {r.artistName, r.showDate, r.venue, r.location, r.recordingIdentifier}
         THEN NA
         ELSE (((r.artistName * 100 + r.showDate) * 100 + r.venue) * 100 + r.location) * 100
              + r.recordingIdentifier

\* The keys of df.groupby(key): distinct, ascending, NaN keys dropped.
GroupKeys(rows, key) == SortedSeq({KeyOf(r, key) : r \in Range(rows)} \ {NA})

GroupRows(rows, key, k) == SelectSeq(rows, LAMBDA r : KeyOf(r, key) = k)

\* <faulty variant: the smallest total_seconds first, an ascending sort>
BestIndexSmallest(t, order) ==
  LET low == {i \in 1..Len(t) : \A j \in 1..Len(t) : t[i].total_seconds <= t[j].total_seconds}
  IN  IF order = "first" THEN SetMin(low) ELSE SetMax(low)

\* Index of the row sort_values(ascending=False) puts first: the largest
\* total_seconds; among equal totals the sort is not stable and the build decides.
BestIndex(t, order) ==
  LET top == {i \in 1..Len(t) : \A j \in 1..Len(t) : t[i].total_seconds >= t[j].total_seconds}
  IN  IF order = "first" THEN SetMin(top) ELSE SetMax(top)

RECURSIVE SortDescending(_, _)
SortDescending(t, order) ==
  IF t = <<>> THEN <<>>
  ELSE LET b == BestIndex(t, order)
       IN  <<t[b]>> \o SortDescending(SubSeq(t, 1, b - 1) \o SubSeq(t, b + 1, Len(t)), order)

\* DataFrame.head(n) for n >= 0.
HeadN(t, n) == SubSeq(t, 1, IF n < Len(t) THEN n ELSE Len(t))

\* <faulty variant: percentListenedTo clamped to 1 before it is multiplied>
CalculateTotalMinutesClamped(rows) ==
  LET clamped == [i \in 1..Len(rows) |->
                   rows[i].duration * (IF rows[i].percentListenedTo > 100 THEN 100
                                       ELSE rows[i].percentListenedTo)]
      total == SumSeq(clamped)
  IN  [total_minutes |-> RoundHalfEven(total, 60),
       total_hours   |-> RoundHalfEven(total, 3600),
       total_days    |-> RoundHalfEven(total, 86400)]

\* calculate_total_minutes: each figure rounded to 2 decimals (kept in hundredths).
CalculateTotalMinutes(rows) ==
  LET total == TotalListening(rows)
  IN  [total_minutes |-> RoundHalfEven(total, 60),
       total_hours   |-> RoundHalfEven(total, 3600),
       total_days    |-> RoundHalfEven(total, 86400)]

\* <faulty variant: no grouping, one row per session>
GetTopArtistsUngrouped(rows, n, order) ==
  LET named == SelectSeq(rows, LAMBDA r : r.artistName # NA)
      stats == [i \in 1..Len(named) |->
                 [artistName |-> named[i].artistName,
                  total_seconds |-> ListeningTime(named[i]),
                  session_count |-> 1]]
  IN  HeadN(SortDescending(stats, order), n)

\* get_top_artists: groupby('artistName'), sort by total_seconds, head(n).
GetTopArtists(rows, n, order) ==
  LET keys == GroupKeys(rows, "artistName")
      stats == [i \in 1..Len(keys) |->
                 LET g == GroupRows(rows, "artistName", keys[i])
                 IN  [artistName |-> keys[i], total_seconds |-> TotalListening(g),
                      session_count |-> CountOf(g, "recordingIdentifier")]]
  IN  HeadN(SortDescending(stats, order), n)

\* Rows for every weekday, the absent ones filled with zeros <faulty variant>.
GetListeningByDayAllWeek(rows) ==
  [d \in 1..7 |->
     LET g == GroupRows(rows, "day_of_week", d)
     IN  [day |-> d - 1, total_seconds |-> TotalListening(g),
          session_count |-> CountOf(g, "recordingIdentifier")]]

\* get_listening_by_day: one row per weekday that occurs, sorted by the ordered
\* categorical Monday..Sunday (day 0..6).
GetListeningByDay(rows) ==
  LET keys == GroupKeys(rows, "day_of_week")
  IN  [i \in 1..Len(keys) |->
        LET g == GroupRows(rows, "day_of_week", keys[i])
        IN  [day |-> keys[i] - 1, total_seconds |-> TotalListening(g),
             session_count |-> CountOf(g, "recordingIdentifier")]]

GetTopListeningDays(rows, n, order) ==
  LET keys == GroupKeys(rows, "date")
      stats == [i \in 1..Len(keys) |->
                 LET g == GroupRows(rows, "date", keys[i])
                 IN  [date |-> keys[i], total_seconds |-> TotalListening(g),
                      session_count |-> CountOf(g, "recordingIdentifier")]]
  IN  HeadN(SortDescending(stats, order), n)

GetListeningByMonth(rows) ==
  LET keys == GroupKeys(rows, "year_month")
  IN  [i \in 1..Len(keys) |->
        LET g == GroupRows(rows, "year_month", keys[i])
        IN  [month |-> keys[i], total_seconds |-> TotalListening(g),
             session_count |-> CountOf(g, "recordingIdentifier")]]

GetTopShows(rows, n, order) ==
  LET keys == GroupKeys(rows, "show_id")
      stats == [i \in 1..Len(keys) |->
                 LET g == GroupRows(rows, "show_id", keys[i])
                 IN  [artist |-> g[1].artistName, date |-> g[1].showDate,
                      venue |-> g[1].venue, location |-> g[1].location,
                      recording_id |-> g[1].recordingIdentifier,
                      total_seconds |-> TotalListening(g),
                      listen_count |-> CountOf(g, "sessionIdentifier")]]
  IN  HeadN(SortDescending(stats, order), n)

\* get_stats_summary; on an empty table min()/max() are NaT and the period is NaN,
\* written NA here.
GetStatsSummary(rows, favorites) ==
  LET t == CalculateTotalMinutes(rows)
      stamps == {r.listenedOn.doy * 24 + r.listenedOn.hour : r \in Range(rows)}
  IN  [total_minutes |-> t.total_minutes, total_hours |-> t.total_hours,
       total_days |-> t.total_days,
       first_listen |-> IF rows = <<>> THEN NA ELSE SetMin(stamps),
       last_listen |-> IF rows = <<>> THEN NA ELSE SetMax(stamps),
       listening_period_days |-> IF rows = <<>> THEN NA
                                 ELSE (SetMax(stamps) - SetMin(stamps)) \div 24,
       unique_artists |-> Cardinality({r.artistName : r \in Range(rows)} \ {NA}),
       unique_shows |-> Cardinality({r.recordingIdentifier : r \in Range(rows)} \ {NA}),
       total_sessions |-> Len(rows),
       favorite_artists_count |->
         Len(SelectSeq(favorites, LAMBDA f : f.favoriteType = "artist")),
       favorite_recordings_count |->
         Len(SelectSeq(favorites, LAMBDA f : f.favoriteType = "recording"))]

\* ---------------------------------------------------------------- insights
Insight(rule, label, num, name) == [rule |-> rule, label |-> label, num |-> num, name |-> name]

\* sorted(df['date'].unique())
Dates(rows) == SortedSeq({r.listenedOn.doy : r \in Range(rows)})

RECURSIVE StreakLoop(_, _, _, _)
\* The for loop of the streak rule from index i (1-based) on.
StreakLoop(dates, i, current, best) ==
  IF i > Len(dates) THEN best
  ELSE IF dates[i] - dates[i - 1] = 1
       THEN StreakLoop(dates, i + 1, current + 1, Max(best, current + 1))
       ELSE StreakLoop(dates, i + 1, 1, best)

MaxStreak(dates) == StreakLoop(dates, 2, 1, 1)

\* Series.value_counts().index[0]: a most frequent value, NaN not counted.  Equal
\* counts are ordered by an unstable sort over the values in first-seen order.
TopValue(vals, order) ==
  LET present == {i \in 1..Len(vals) : vals[i] # NA}
      first(v) == SetMin({i \in present : vals[i] = v})
      count(v) == Cardinality({i \in present : vals[i] = v})
      values == {vals[i] : i \in present}
      top == {v \in values : \A w \in values : count(v) >= count(w)}
      pos == {first(v) : v \in top}
  IN  vals[IF order = "first" THEN SetMin(pos) ELSE SetMax(pos)]

Column(rows, key) == [i \in 1..Len(rows) |-> KeyOf(rows[i], key)]

\* Series.nunique(): distinct values, NaN dropped.
NUnique(vals) == Cardinality(Range(vals) \ {NA})

\* Rule 1 <faulty variant: emits from a 2-day run on>.
StreakRuleFromTwo(rows) ==
  LET dates == Dates(rows)
  IN  IF Len(dates) > 1 /\ MaxStreak(dates) >= StreakThreshold
      THEN <<Insight(1, "listening streak", MaxStreak(dates), NA)>>
      ELSE <<>>

\* Rule 1.
StreakRule(rows) ==
  LET dates == Dates(rows)
  IN  IF Len(dates) > 1 /\ MaxStreak(dates) > StreakThreshold
      THEN <<Insight(1, "listening streak", MaxStreak(dates), NA)>>
      ELSE <<>>

\* Rule 2 <faulty variant: the buckets start one hour late>.
FavoriteHourRuleLate(rows, order) ==
  IF rows = <<>> THEN <<>>
  ELSE LET h == TopValue(Column(rows, "hour"), order)
       IN  <<Insight(2,
                     IF 5 < h /\ h <= 12 THEN "Morning listener"
                     ELSE IF 12 < h /\ h <= 17 THEN "Afternoon vibes"
                     ELSE IF 17 < h /\ h <= 21 THEN "Evening sessions"
                     ELSE "Night owl",
                     h, NA)>>

\* Rule 2.
FavoriteHourRule(rows, order) ==
  IF rows = <<>> THEN <<>>
  ELSE LET h == TopValue(Column(rows, "hour"), order)
       IN  <<Insight(2,
                     IF 5 <= h /\ h < 12 THEN "Morning listener"
                     ELSE IF 12 <= h /\ h < 17 THEN "Afternoon vibes"
                     ELSE IF 17 <= h /\ h < 21 THEN "Evening sessions"
                     ELSE "Night owl",
                     h, NA)>>

\* Rule 3 <faulty variant: the bounds 60% and 30% themselves emit>.
WeekendRuleInclusive(rows) ==
  LET weekend == Len(SelectSeq(rows, LAMBDA r : DayOfWeek(r.listenedOn.doy) >= 5))
  IN  IF weekend * 100 >= 60 * Len(rows) THEN <<Insight(3, "Weekend warrior", weekend, NA)>>
      ELSE IF weekend * 100 <= 30 * Len(rows)
           THEN <<Insight(3, "Weekday listener", Len(rows) - weekend, NA)>>
           ELSE <<>>

\* Rule 3 (rows # <<>>): weekend_pct = weekend sessions / sessions * 100.
WeekendRule(rows) ==
  LET weekend == Len(SelectSeq(rows, LAMBDA r : DayOfWeek(r.listenedOn.doy) >= 5))
  IN  IF weekend * 100 > 60 * Len(rows) THEN <<Insight(3, "Weekend warrior", weekend, NA)>>
      ELSE IF weekend * 100 < 30 * Len(rows)
           THEN <<Insight(3, "Weekday listener", Len(rows) - weekend, NA)>>
           ELSE <<>>

ArtistNames(rows) == Column(rows, "artistName")

\* diversity_ratio < 0.15, with diversity_ratio = unique_artists / total_sessions.
LowDiversity(rows) == NUnique(ArtistNames(rows)) * 100 < 15 * Len(rows)

\* diversity_ratio > 0.5
HighDiversity(rows) == NUnique(ArtistNames(rows)) * 2 > Len(rows)

\* Rule 4 <faulty variant: the superfan branch also taken at diversity_ratio == 0.15>.
DiversityRuleInclusive(rows, order) ==
  IF HighDiversity(rows)
  THEN <<Insight(4, "Eclectic taste", NUnique(ArtistNames(rows)), NA)>>
  ELSE IF NUnique(ArtistNames(rows)) * 100 <= 15 * Len(rows)
       THEN <<Insight(4, "Superfan of", 0, TopValue(ArtistNames(rows), order))>>
       ELSE <<>>

\* Rule 4 (rows # <<>>).
DiversityRule(rows, order) ==
  IF HighDiversity(rows)
  THEN <<Insight(4, "Eclectic taste", NUnique(ArtistNames(rows)), NA)>>
  ELSE IF LowDiversity(rows)
       THEN <<Insight(4, "Superfan of", 0, TopValue(ArtistNames(rows), order))>>
       ELSE <<>>

\* daily_time of rule 5, in hundredths of a second, per date of Dates(rows).
DailyTime(rows) ==
  LET dates == Dates(rows)
  IN  [i \in 1..Len(dates) |-> TotalListening(GroupRows(rows, "date", dates[i]))]

\* Rule 5 <faulty variant: a day of exactly 4 hours counts>.
MarathonRuleFromFour(rows) ==
  LET daily == DailyTime(rows)
      marathon == {i \in 1..Len(daily) : daily[i] >= 4 * 3600 * 100}
  IN  IF Cardinality(marathon) > 0
      THEN <<Insight(5, "marathon listening days", Cardinality(marathon),
                     SetMax(Range(daily)))>>
      ELSE <<>>

\* Rule 5: days with more than 4 hours; num is the number of such days and name
\* the largest daily total.
MarathonRule(rows) ==
  LET daily == DailyTime(rows)
      marathon == {i \in 1..Len(daily) : daily[i] > 4 * 3600 * 100}
  IN  IF Cardinality(marathon) > 0
      THEN <<Insight(5, "marathon listening days", Cardinality(marathon),
                     SetMax(Range(daily)))>>
      ELSE <<>>

\* Rule 6.
PeakMonthRule(rows, order) ==
  IF rows = <<>> THEN <<>>
  ELSE <<Insight(6, "Peak listening month", 0, TopValue(Column(rows, "month"), order))>>

\* Rule 7; value_counts().index[0] of a column that is all NaN raises IndexError.
VenueRuleRaises(rows) == NUnique(Column(rows, "venue")) = 0

VenueRule(rows, order) ==
  LET venues == Column(rows, "venue")
  IN  IF NUnique(venues) > 20 THEN <<Insight(7, "Concert explorer", NUnique(venues), NA)>>
      ELSE IF NUnique(venues) < 5
           THEN <<Insight(7, "Loyal to", 0, TopValue(venues, order))>>
           ELSE <<>>

\* Rule 8 <faulty variant: the population deviation (ddof = 0) instead of the sample one>.
ScheduleRulePopulation(rows) ==
  LET hours == Column(rows, "hour")
      n == Len(rows)
      d == n * SumSeq([i \in 1..n |-> hours[i] * hours[i]]) - SumSeq(hours) * SumSeq(hours)
  IN  IF n < 2 THEN <<>>
      ELSE IF d < 3 * 3 * n * n THEN <<Insight(8, "Creature of habit", 0, NA)>>
      ELSE IF d > 6 * 6 * n * n THEN <<Insight(8, "Free spirit", 0, NA)>>
      ELSE <<>>

\* Rule 8: Series.std() is the sample deviation (ddof = 1), NaN for one session;
\* d is n(n-1) times the variance.
ScheduleRule(rows) ==
  LET hours == Column(rows, "hour")
      n == Len(rows)
      d == n * SumSeq([i \in 1..n |-> hours[i] * hours[i]]) - SumSeq(hours) * SumSeq(hours)
  IN  IF n < 2 THEN <<>>
      ELSE IF d < 3 * 3 * n * (n - 1) THEN <<Insight(8, "Creature of habit", 0, NA)>>
      ELSE IF d > 6 * 6 * n * (n - 1) THEN <<Insight(8, "Free spirit", 0, NA)>>
      ELSE <<>>

\* <faulty variant: the split one date later, at index len(dates) // 2 + 1>
MidDateLate(dates) == dates[(Len(dates) \div 2) + 2]

\* dates[len(dates) // 2], the date the discovery rule splits at (needs dates).
MidDate(dates) == dates[(Len(dates) \div 2) + 1]

FirstHalf(rows) == SelectSeq(rows, LAMBDA r : r.listenedOn.doy < MidDate(Dates(rows)))

SecondHalf(rows) == SelectSeq(rows, LAMBDA r : r.listenedOn.doy >= MidDate(Dates(rows)))

\* len(set(second_half['artistName']) - set(first_half['artistName']))
NewArtists(rows) ==
  Cardinality(Range(ArtistNames(SecondHalf(rows))) \ Range(ArtistNames(FirstHalf(rows))))

\* Rule 9 <faulty variant: evaluated from 30 distinct days on>.
DiscoveryRuleFromThirty(rows) ==
  IF Len(Dates(rows)) >= DiscoveryDays /\ NewArtists(rows) > NewArtistsThreshold
  THEN <<Insight(9, "Explorer mode", NewArtists(rows), NA)>>
  ELSE <<>>

\* Rule 9.
DiscoveryRule(rows) ==
  IF Len(Dates(rows)) > DiscoveryDays /\ NewArtists(rows) > NewArtistsThreshold
  THEN <<Insight(9, "Explorer mode", NewArtists(rows), NA)>>
  ELSE <<>>

\* Rule 10 <faulty variant: a session heard to exactly 0.8 counts as completed>.
CompletionRuleFromEighty(rows) ==
  LET high == Len(SelectSeq(rows, LAMBDA r : r.percentListenedTo >= 80))
  IN  IF high * 100 > 75 * Len(rows) THEN <<Insight(10, "Completionist", high, NA)>>
      ELSE IF high * 100 < 25 * Len(rows)
           THEN <<Insight(10, "Sampler", Len(rows) - high, NA)>>
           ELSE <<>>

\* Rule 10 (rows # <<>>).
CompletionRule(rows) ==
  LET high == Len(SelectSeq(rows, LAMBDA r : r.percentListenedTo > 80))
  IN  IF high * 100 > 75 * Len(rows) THEN <<Insight(10, "Completionist", high, NA)>>
      ELSE IF high * 100 < 25 * Len(rows)
           THEN <<Insight(10, "Sampler", Len(rows) - high, NA)>>
           ELSE <<>>

\* Rule 11 <faulty variant: the longest effective time instead of the raw duration>.
LongestSessionRuleEffective(rows) ==
  LET longest == SetMax({r.duration * r.percentListenedTo : r \in Range(rows)})
  IN  IF longest > 7200 * 100 THEN <<Insight(11, "Epic session", longest \div 100, NA)>>
      ELSE <<>>

\* Rule 11 (rows # <<>>).
LongestSessionRule(rows) ==
  LET longest == SetMax({r.duration : r \in Range(rows)})
  IN  IF longest > 7200 THEN <<Insight(11, "Epic session", longest, NA)>> ELSE <<>>

\* len(top_artist_shows.groupby(['showDate', 'venue'])): NaN keys are dropped.
UniqueShows(rows, artist) ==
  Cardinality({<<r.showDate, r.venue>> :
                 r \in {x \in Range(rows) : /\ x.artistName = artist
                                            /\ x.showDate # NA
                                            /\ x.venue # NA}})

\* Rule 12 <faulty variant: emits from 10 distinct shows on>.
DeepDiveRuleFromTen(rows, order) ==
  IF LowDiversity(rows)
     /\ UniqueShows(rows, TopValue(ArtistNames(rows), order)) >= 10
  THEN <<Insight(12, "Deep dive", UniqueShows(rows, TopValue(ArtistNames(rows), order)),
                 TopValue(ArtistNames(rows), order))>>
  ELSE <<>>

\* Rule 12 (rows # <<>>).
DeepDiveRule(rows, order) ==
  IF LowDiversity(rows)
     /\ UniqueShows(rows, TopValue(ArtistNames(rows), order)) > 10
  THEN <<Insight(12, "Deep dive", UniqueShows(rows, TopValue(ArtistNames(rows), order)),
                 TopValue(ArtistNames(rows), order))>>
  ELSE <<>>

\* The rules in the order the function runs them <faulty variant: rule 4 after rule 5>.
InsightsSwapped(rows, order) ==
  StreakRule(rows) \o FavoriteHourRule(rows, order) \o WeekendRule(rows)
    \o MarathonRule(rows) \o DiversityRule(rows, order) \o PeakMonthRule(rows, order)
    \o VenueRule(rows, order) \o ScheduleRule(rows) \o DiscoveryRule(rows)
    \o CompletionRule(rows) \o LongestSessionRule(rows) \o DeepDiveRule(rows, order)

\* The list a call that returns has built.
Insights(rows, order) ==
  StreakRule(rows) \o FavoriteHourRule(rows, order) \o WeekendRule(rows)
    \o DiversityRule(rows, order) \o MarathonRule(rows) \o PeakMonthRule(rows, order)
    \o VenueRule(rows, order) \o ScheduleRule(rows) \o DiscoveryRule(rows)
    \o CompletionRule(rows) \o LongestSessionRule(rows) \o DeepDiveRule(rows, order)

\* get_personalized_insights.  On an empty table 0 / 0 of two Python ints raises
\* ZeroDivisionError at rule 4 (rule 3 divides numpy integers and only gets NaN);
\* with no venue at all rule 7 raises IndexError.
GetPersonalizedInsights(rows, order) ==
  IF rows = <<>>
  THEN [exc |-> "ZeroDivisionError", insights |-> <<>>,
        added |-> {"date", "hour", "is_weekend"}]
  ELSE IF VenueRuleRaises(rows)
  THEN [exc |-> "IndexError", insights |-> <<>>,
        added |-> {"date", "hour", "is_weekend", "listening_time", "month"}]
  ELSE [exc |-> "", insights |-> Insights(rows, order),
        added |-> {"date", "hour", "is_weekend", "listening_time", "month"}]

\* ------------------------------------------------------------------ queries
Limits == 1..MaxRows

\* <faulty variant: the query drops the first session from self.summary_df>
QueryConsuming(q, n, value, added) ==
  /\ pc = "script"
  /\ analyzer = "loaded"
  /\ calls < MaxCalls
  /\ calls' = calls + 1
  /\ result' = Returned(q, n, value)
  /\ columns' = columns \cup added
  /\ summary_df' = IF summary_df = <<>> THEN <<>> ELSE Tail(summary_df)
  /\ UNCHANGED <<data_files, raw_summary, raw_favorites, analyzer, favorites_df, tie>>
  /\ UNCHANGED uploadVars

\* A query on the loaded analyzer: what it returns and the columns it assigns to
\* self.summary_df on the way.
Query(q, n, value, added) ==
  /\ pc = "script"
  /\ analyzer = "loaded"
  /\ calls < MaxCalls
  /\ calls' = calls + 1
  /\ result' = Returned(q, n, value)
  /\ columns' = columns \cup added
  /\ UNCHANGED <<data_files, raw_summary, raw_favorites, analyzer, summary_df, favorites_df, tie>>
  /\ UNCHANGED uploadVars

get_total_listening_time ==
  Query("get_total_listening_time", 0, CalculateTotalMinutes(summary_df), {})

get_top_artists ==
  \E n \in Limits : Query("get_top_artists", n, GetTopArtists(summary_df, n, tie), {})

get_listening_by_day ==
  Query("get_listening_by_day", 0, GetListeningByDay(summary_df),
        {"day_of_week", "listening_time"})

get_top_listening_days ==
  \E n \in Limits :
    Query("get_top_listening_days", n, GetTopListeningDays(summary_df, n, tie),
          {"date", "listening_time"})

get_listening_by_month ==
  Query("get_listening_by_month", 0, GetListeningByMonth(summary_df),
        {"year_month", "listening_time"})

get_top_shows ==
  \E n \in Limits :
    Query("get_top_shows", n, GetTopShows(summary_df, n, tie), {"show_id", "listening_time"})

get_stats_summary ==
  Query("get_stats_summary", 0, GetStatsSummary(summary_df, favorites_df), {})

get_personalized_insights ==
  /\ pc = "script"
  /\ analyzer = "loaded"
  /\ calls < MaxCalls
  /\ calls' = calls + 1
  /\ LET r == GetPersonalizedInsights(summary_df, tie)
     IN  /\ result' = IF r.exc = "" THEN Returned("get_personalized_insights", 0, r.insights)
                      ELSE Raised("get_personalized_insights", 0, r.exc, <<>>)
         /\ columns' = columns \cup r.added
  /\ UNCHANGED <<data_files, raw_summary, raw_favorites, analyzer, summary_df, favorites_df, tie>>
  /\ UNCHANGED uploadVars

\* ------------------------------------------------- the analyzer's life cycle
NoResponse ==
  [code |-> 0, success |-> FALSE, error |-> "", names |-> "", at |-> "",
   has_stats |-> FALSE, stats |-> <<>>, slides |-> {}, audio |-> FALSE]

\* No upload request is in progress: the analyzer is driven by a script.
\* A request the server has not received yet.
IdleRequest ==
  [pc |-> "idle", summary_df |-> <<>>, stats |-> <<>>, slide |-> 1, response |-> NoResponse]

\* static/generated without a file in it.
NoSlides == [f \in {} |-> 0]

\* No request is handled on a thread of its own.
NoThreads ==
  /\ requests = [r \in Requests |-> IdleRequest]
  /\ slide_source = NoSlides

\* No upload request is in progress: the analyzer is driven by a script.
ScriptOnly ==
  /\ pc = "script"
  /\ subdir_files = {}
  /\ temp_dir = "none"
  /\ response = NoResponse
  /\ static_generated = {}
  /\ NoThreads

FileSets == {RequiredFiles} \cup {RequiredFiles \ {f} : f \in RequiredFiles}

Init ==
  /\ data_files \in FileSets
  /\ raw_summary \in RawTables
  /\ raw_favorites \in RawFavorites
  /\ analyzer = "new"
  /\ summary_df = <<>>
  /\ columns = {}
  /\ favorites_df = <<>>
  /\ result = NoResult
  /\ calls = 0
  /\ tie \in TieOrders
  /\ ScriptOnly

Next ==
  \/ load_data
  \/ get_total_listening_time
  \/ get_top_artists
  \/ get_listening_by_day
  \/ get_top_listening_days
  \/ get_listening_by_month
  \/ get_top_shows
  \/ get_personalized_insights
  \/ get_stats_summary

Spec == Init /\ [][Next]_vars

\* --------------------------------------- the insight rules on patterned logs
\* A log of p.n sessions laid out by period: session i is on day
\* day0 + (i-1)*stride (6 days later once past gapAt), by artist 1 for the first
\* `lead` sessions and then by the artists in turn, at the venues and shows in turn,
\* at hour0 or hour0 + hourStep alternately, heard to 100% for `high` of every 4
\* sessions and to 80% otherwise.
PatternRow(p, i) ==
  Session(i,
          1 + ((i - 1) % p.shows),
          IF i <= p.lead THEN 1 ELSE 1 + ((i - p.lead - 1) % p.artists),
          1 + ((i - 1) % p.shows),
          IF p.venues = 0 THEN NA ELSE 1 + ((i - 1) % p.venues),
          1,
          TargetYear,
          p.day0 + (i - 1) * p.stride + (IF p.gapAt > 0 /\ i > p.gapAt THEN 6 ELSE 0),
          (p.hour0 + ((i - 1) % 2) * p.hourStep) % 24,
          p.dur,
          IF (i - 1) % 4 < p.high THEN 100 ELSE 80)

PatternTable(p) == [i \in 1..p.n |-> PatternRow(p, i)]

BasePattern(n) ==
  [n |-> n, day0 |-> 1, stride |-> 1, gapAt |-> 0, lead |-> 0, artists |-> 3, shows |-> 2,
   venues |-> 5, hour0 |-> 9, hourStep |-> 0, high |-> 2, dur |-> 3600]

SessionCounts == 1..MaxSessions

ShortCounts == 1..8

Patterns ==
  {[BasePattern(n) EXCEPT !.day0 = d, !.stride = s, !.gapAt = g] :
     n \in SessionCounts, d \in {1, 4}, s \in {0, 1, 2, 7}, g \in {0, 2, 3}}
  \cup
  {[BasePattern(n) EXCEPT !.artists = a, !.shows = k] :
     n \in SessionCounts, a \in {1, 2, 3, 5, 6, 16, 20, 21, 26}, k \in {1, 10, 11}}
  \cup
  {[BasePattern(n) EXCEPT !.venues = v] : n \in SessionCounts, v \in {0, 1, 4, 5, 20, 21}}
  \cup
  {[BasePattern(n) EXCEPT !.hour0 = h, !.hourStep = t] :
     n \in ShortCounts, h \in {4, 5, 11, 12, 16, 17, 20, 21}, t \in {0, 5, 6, 13}}
  \cup
  {[BasePattern(n) EXCEPT !.stride = 0, !.high = c, !.dur = d] :
     n \in ShortCounts, c \in 0..4, d \in {3600, 7200, 7201}}
  \cup
  {[BasePattern(100) EXCEPT !.lead = 25, !.artists = 5]}

\* A log of n sessions heard in full, `per` of them on each day from January 1 on,
\* each of `dur` seconds.
BlockTable(n, per, dur) ==
  [i \in 1..n |->
     Session(i, 1 + ((i - 1) % 2), 1 + ((i - 1) % 3), 1 + ((i - 1) % 2), 1 + ((i - 1) % 5), 1,
             TargetYear, 1 + ((i - 1) \div per), 9, dur, 100)]

BlockCounts == 1..6

BlockTables ==
  {BlockTable(n, per, dur) : n \in BlockCounts, per \in {2, 3}, dur \in {4800, 7200, 7201}}

\* Three sessions on three days, at the hours 9 - k, 9 and 9 + k, each of `dur`
\* seconds and heard to pct percent.
EdgeTable(k, dur, pct) ==
  [i \in 1..3 |->
     Session(i, i, i, i, i, 1, TargetYear, i, 9 + (i - 2) * k, dur, pct)]

EdgeTables ==
  {EdgeTable(k, dur, pct) : k \in {2, 3, 4, 6, 7}, dur \in {6500, 7200, 7201},
                            pct \in {80, 81, 120}}

InsightInputs ==
  {PatternTable(p) : p \in Patterns} \cup RawTables \cup BlockTables \cup EdgeTables

InitInsights ==
  /\ data_files = RequiredFiles
  /\ raw_summary \in InsightInputs
  /\ raw_favorites = <<>>
  /\ analyzer = "new"
  /\ summary_df = <<>>
  /\ columns = {}
  /\ favorites_df = <<>>
  /\ result = NoResult
  /\ calls = 0
  /\ tie \in TieOrders
  /\ ScriptOnly

NextInsights ==
  \/ load_data
  \/ get_personalized_insights

SpecInsights == InitInsights /\ [][NextInsights]_vars

\* ============================================================== upload_file
\* Response(...) is jsonify(...) with its status code; `at` is the step of the
\* handler that produced it and `names` the file its message names, if any.
Failure(code, error, names, at) ==
  [code |-> code, success |-> FALSE, error |-> error, names |-> names, at |-> at,
   has_stats |-> FALSE, stats |-> <<>>, slides |-> {}, audio |-> FALSE]

\* response_data['stats']: total_hours is rounded again, to one decimal (tenths).
ResponseStats(stats) ==
  [total_hours |-> RoundHalfEven(stats.total_hours, 10),
   total_artists |-> stats.unique_artists,
   total_shows |-> stats.unique_shows,
   total_sessions |-> stats.total_sessions]

Success(stats, slides, audio) ==
  [code |-> 200, success |-> TRUE, error |-> "", names |-> "", at |-> "respond",
   has_stats |-> TRUE, stats |-> ResponseStats(stats), slides |-> slides, audio |-> audio]

\* The slides generate_all leaves after its renaming step.
AllSlides ==
  {"01_title.png", "02_listening_time.png", "03_top_artist.png", "04_top_artists.png",
   "05_top_shows.png", "06_insights.png", "07_day_of_week.png", "08_top_day.png",
   "09_summary_stats.png", "10_monthly_timeline.png", "11_finale.png"}

\* generate_all on the loaded table: the slides are written one by one.  With no
\* artist group create_top_artist_slide raises IndexError on iloc[0]; when
\* get_personalized_insights raises, create_insights_slide does.
GenerateAll(rows, order) ==
  IF GetTopArtists(rows, 1, order) = <<>>
  THEN [exc |-> "IndexError", written |-> {"01_title.png", "02_listening_time.png"},
        removed |-> {}, added |-> {"show_id", "listening_time"}]
  ELSE IF GetPersonalizedInsights(rows, order).exc # ""
  THEN [exc |-> GetPersonalizedInsights(rows, order).exc,
        written |-> {"01_title.png", "02_listening_time.png", "03_top_artist.png",
                     "04_top_artists_chart.png"},
        removed |-> {},
        added |-> {"show_id", "listening_time"} \cup GetPersonalizedInsights(rows, order).added]
  ELSE [exc |-> "", written |-> AllSlides, removed |-> {"04_top_artists_chart.png"},
        added |-> {"show_id", "listening_time", "date", "hour", "is_weekend", "month",
                   "day_of_week", "year_month"}]

\* The uploads tried: the three required files each absent, in the root of the
\* archive or in a subdirectory of it; a single (non-zip) file lands in the root.
Archives ==
  {[kind |-> "zip", root |-> r, sub |-> u] :
     r \in SUBSET RequiredFiles, u \in SUBSET RequiredFiles}
  \cup {[kind |-> "single", root |-> {f}, sub |-> {}] : f \in RequiredFiles}
  \cup {[kind |-> "single", root |-> {}, sub |-> {}]}

ShortTables == {t \in RawTables : Len(t) <= 1}

FreshAnalyzer ==
  /\ analyzer' = "new"
  /\ summary_df' = <<>>
  /\ columns' = {}
  /\ favorites_df' = <<>>
  /\ result' = NoResult
  /\ calls' = 0

analyzerVars == <<analyzer, summary_df, columns, favorites_df, result, calls>>

threadVars == <<requests, slide_source>>

\* Lines 69-74: a request without a file part or with an empty file name.
upload_rejected ==
  /\ pc = "idle"
  /\ \E error \in {"No file uploaded", "No file selected"} :
       response' = Failure(400, error, "", "request")
  /\ pc' = "done"
  /\ UNCHANGED <<data_files, raw_summary, raw_favorites, tie, subdir_files, temp_dir,
                 static_generated>>
  /\ UNCHANGED analyzerVars
  /\ UNCHANGED threadVars

\* A request carrying a file: subdir_files holds, until extraction, what the
\* archive has below its root and data_files what it has in its root.
upload_received ==
  /\ pc = "idle"
  /\ \E a \in Archives, t \in ShortTables, f \in RawFavorites :
       /\ data_files' = a.root
       /\ subdir_files' = a.sub
       /\ raw_summary' = t
       /\ raw_favorites' = f
  /\ pc' = "mkdtemp"
  /\ UNCHANGED <<tie, temp_dir, response, static_generated>>
  /\ UNCHANGED analyzerVars
  /\ UNCHANGED threadVars

\* Line 77: temp_dir = tempfile.mkdtemp(); an OSError goes to the outer except.
mkdtemp ==
  /\ pc = "mkdtemp"
  /\ \/ /\ temp_dir' = "exists"
        /\ pc' = "makedirs"
        /\ UNCHANGED response
     \/ /\ response' = Failure(500, "Upload error", "", "mkdtemp")
        /\ pc' = "done"
        /\ UNCHANGED temp_dir
  /\ UNCHANGED <<data_files, raw_summary, raw_favorites, tie, subdir_files, static_generated>>
  /\ UNCHANGED analyzerVars
  /\ UNCHANGED threadVars

\* Line 79: os.makedirs(data_dir) runs before the inner try, so an OSError goes to
\* the outer except, past the finally that removes temp_dir.
makedirs ==
  /\ pc = "makedirs"
  /\ \/ /\ pc' = "save"
        /\ UNCHANGED response
     \/ /\ response' = Failure(500, "Upload error", "", "makedirs")
        /\ pc' = "done"
  /\ UNCHANGED <<data_files, raw_summary, raw_favorites, tie, subdir_files, temp_dir,
                 static_generated>>
  /\ UNCHANGED analyzerVars
  /\ UNCHANGED threadVars

\* Lines 83-93: save the upload and extract or copy it into data_dir.
save_and_extract ==
  /\ pc = "save"
  /\ \/ /\ pc' = "discover"
        /\ UNCHANGED response
     \/ /\ response' = Failure(500, "Error processing file", "", "save")
        /\ pc' = "finally"
  /\ UNCHANGED <<data_files, raw_summary, raw_favorites, tie, subdir_files, temp_dir,
                 static_generated>>
  /\ UNCHANGED analyzerVars
  /\ UNCHANGED threadVars

\* Lines 96-104: only when none of the required files is in the root of data_dir
\* are the ones found below it copied up.
discover_files ==
  /\ pc = "discover"
  /\ \/ /\ data_files' = IF data_files \cap RequiredFiles = {}
                         THEN data_files \cup subdir_files ELSE data_files
        /\ pc' = "verify"
        /\ UNCHANGED response
     \/ /\ data_files \cap RequiredFiles = {}
        /\ subdir_files # {}
        /\ response' = Failure(500, "Error processing file", "", "discover")
        /\ pc' = "finally"
        /\ UNCHANGED data_files
  /\ UNCHANGED <<raw_summary, raw_favorites, tie, subdir_files, temp_dir, static_generated>>
  /\ UNCHANGED analyzerVars
  /\ UNCHANGED threadVars

\* Lines 107-111.
verify_main_file ==
  /\ pc = "verify"
  /\ IF "ListeningHistorySummary.tsv" \notin data_files
     THEN /\ response' = Failure(400, "Could not find", "ListeningHistorySummary.tsv", "verify")
          /\ pc' = "finally"
     ELSE /\ pc' = "load"
          /\ UNCHANGED response
  /\ UNCHANGED <<data_files, raw_summary, raw_favorites, tie, subdir_files, temp_dir,
                 static_generated>>
  /\ UNCHANGED analyzerVars
  /\ UNCHANGED threadVars

\* Lines 115-116: a new analyzer on data_dir; str(e) of the FileNotFoundError ends
\* with the path of the file that is missing.
upload_load_data ==
  /\ pc = "load"
  /\ DoLoad(data_files)
  /\ calls' = 0
  /\ LET l == LoadData(data_files, raw_summary, raw_favorites)
     IN  IF l.exc = ""
         THEN /\ pc' = "analyze"
              /\ UNCHANGED response
         ELSE /\ response' = Failure(500, "Error processing file", l.filename, "load")
              /\ pc' = "finally"
  /\ UNCHANGED <<data_files, raw_summary, raw_favorites, tie, subdir_files, temp_dir,
                 static_generated>>
  /\ UNCHANGED threadVars

\* Lines 120-132: get_stats_summary, then get_top_shows(1) for the audio lookup.
upload_analyze ==
  /\ pc = "analyze"
  /\ result' = Returned("get_top_shows", 1, GetTopShows(summary_df, 1, tie))
  /\ columns' = columns \cup {"show_id", "listening_time"}
  /\ calls' = calls + 2
  /\ pc' = "generate"
  /\ UNCHANGED <<data_files, raw_summary, raw_favorites, tie, subdir_files, temp_dir,
                 response, static_generated, analyzer, summary_df, favorites_df>>
  /\ UNCHANGED threadVars

\* Lines 136-148: the slides go to the shared folder static/generated.
upload_generate ==
  /\ pc = "generate"
  /\ LET g == GenerateAll(summary_df, tie)
     IN  /\ static_generated' = (static_generated \cup g.written) \ g.removed
         /\ IF g.exc = ""
            THEN /\ pc' = "respond"
                 /\ UNCHANGED response
            ELSE /\ response' = Failure(500, "Error generating slides", "", "generate")
                 /\ pc' = "finally"
  /\ columns' = columns \cup GenerateAll(summary_df, tie).added
  /\ UNCHANGED <<data_files, raw_summary, raw_favorites, tie, subdir_files, temp_dir,
                 analyzer, summary_df, favorites_df, result, calls>>
  /\ UNCHANGED threadVars

\* Lines 152-174: the response lists every .png of static/generated; whether an
\* audio URL was found depends on archive.org.
upload_respond ==
  /\ pc = "respond"
  /\ IF static_generated = {}
     THEN response' = Failure(500, "No slides were generated", "", "respond")
     ELSE \E audio \in BOOLEAN :
            response' = Success(GetStatsSummary(summary_df, favorites_df), static_generated,
                                audio /\ result.value # <<>>)
  /\ pc' = "finally"
  /\ UNCHANGED <<data_files, raw_summary, raw_favorites, tie, subdir_files, temp_dir,
                 static_generated>>
  /\ UNCHANGED analyzerVars
  /\ UNCHANGED threadVars

\* Lines 183-185: shutil.rmtree(temp_dir, ignore_errors=True), then the return.
upload_finally ==
  /\ pc = "finally"
  /\ temp_dir' = "deleted"
  /\ pc' = "done"
  /\ UNCHANGED <<data_files, raw_summary, raw_favorites, tie, subdir_files, response,
                 static_generated>>
  /\ UNCHANGED analyzerVars
  /\ UNCHANGED threadVars

\* The server takes the next request; static/generated stays as it is.
next_request ==
  /\ pc = "done"
  /\ pc' = "idle"
  /\ data_files' = {}
  /\ subdir_files' = {}
  /\ raw_summary' = <<>>
  /\ raw_favorites' = <<>>
  /\ temp_dir' = "none"
  /\ response' = NoResponse
  /\ FreshAnalyzer
  /\ UNCHANGED <<tie, static_generated>>
  /\ UNCHANGED threadVars

\* serve_slide: send_from_directory('static/generated', filename) answers 200 with
\* the file when it is there and 404 otherwise, whichever request wrote it.
ServeSlide(filename) == IF filename \in static_generated THEN 200 ELSE 404

\* The server waiting for a request, or the loader run by a script on a data
\* directory that may lack one of the files.
InitUpload ==
  /\ analyzer = "new"
  /\ summary_df = <<>>
  /\ columns = {}
  /\ favorites_df = <<>>
  /\ result = NoResult
  /\ calls = 0
  /\ tie \in TieOrders
  /\ subdir_files = {}
  /\ temp_dir = "none"
  /\ response = NoResponse
  /\ static_generated = {}
  /\ NoThreads
  /\ \/ /\ pc = "idle"
        /\ data_files = {}
        /\ raw_summary = <<>>
        /\ raw_favorites = <<>>
     \/ /\ pc = "script"
        /\ data_files \in FileSets
        /\ raw_summary \in ShortTables
        /\ raw_favorites \in RawFavorites

NextUpload ==
  \/ load_data
  \/ upload_rejected
  \/ upload_received
  \/ mkdtemp
  \/ makedirs
  \/ save_and_extract
  \/ discover_files
  \/ verify_main_file
  \/ upload_load_data
  \/ upload_analyze
  \/ upload_generate
  \/ upload_respond
  \/ upload_finally
  \/ next_request

SpecUpload == InitUpload /\ [][NextUpload]_vars

\* ============================================== upload_file on two threads
\* Everything upload_file touches is local to its request (the temporary directory
\* of mkdtemp, the analyzer, the presentation) except the folder static/generated,
\* which every request writes its slides to and lists.
sequentialVars ==
  <<data_files, raw_summary, raw_favorites, analyzer, summary_df, columns, favorites_df,
    result, calls, tie, pc, subdir_files, temp_dir, response>>

\* The calls of generate_all in their order; each one ends by saving this file.
SlideOrder ==
  <<"01_title.png", "02_listening_time.png", "03_top_artist.png",
    "04_top_artists_chart.png", "06_insights.png", "05_top_shows.png",
    "07_day_of_week.png", "08_top_day.png", "09_summary_stats.png",
    "10_monthly_timeline.png", "11_finale.png">>

\* savefig or shutil.move of request r onto the name f, and os.remove of f.
WriteFile(files, f, r) == [g \in DOMAIN files \cup {f} |-> IF g = f THEN r ELSE files[g]]

RemoveFile(files, f) == [g \in DOMAIN files \ {f} |-> files[g]]

\* The request returns resp; its finally removes its own temporary directory.
Finish(r, resp) == requests' = [requests EXCEPT ![r].pc = "done", ![r].response = resp]

Goto(r, p) == requests' = [requests EXCEPT ![r].pc = p]

\* The Favorites.tsv of the uploads tried on the threaded server: the favorites
\* reach neither the names of the slides nor the listing of the folder.
UploadedFavorites == {f \in RawFavorites : f # <<>>}

\* Lines 69-132 of upload_file, which touch nothing shared: the upload is saved,
\* extracted, searched and loaded, and the statistics of the response computed.
request_received(r) ==
  /\ pc = "threaded"
  /\ requests[r].pc = "idle"
  /\ \E a \in Archives, t \in ShortTables, fav \in UploadedFavorites :
       LET files == IF a.root \cap RequiredFiles = {} THEN a.root \cup a.sub ELSE a.root
           l == LoadData(files, t, fav)
       IN  \/ \E early \in {Failure(400, "No file uploaded", "", "request"),
                            Failure(500, "Upload error", "", "mkdtemp"),
                            Failure(500, "Upload error", "", "makedirs"),
                            Failure(500, "Error processing file", "", "save")} :
                Finish(r, early)
           \/ /\ "ListeningHistorySummary.tsv" \notin files
              /\ Finish(r, Failure(400, "Could not find", "ListeningHistorySummary.tsv",
                                   "verify"))
           \/ /\ "ListeningHistorySummary.tsv" \in files
              /\ l.exc # ""
              /\ Finish(r, Failure(500, "Error processing file", l.filename, "load"))
           \/ /\ "ListeningHistorySummary.tsv" \in files
              /\ l.exc = ""
              /\ requests' = [requests EXCEPT
                                ![r] = [pc |-> "generate", summary_df |-> l.summary,
                                        stats |-> GetStatsSummary(l.summary, l.favorites),
                                        slide |-> 1, response |-> NoResponse]]
  /\ UNCHANGED <<slide_source, static_generated>>
  /\ UNCHANGED sequentialVars

\* One call of generate_all (generate_wrapped.py 1119-1150): the slide is saved
\* under its fixed name in static/generated, or the call raises and the handler
\* answers 500 (app.py 141-148).
write_slide(r) ==
  /\ pc = "threaded"
  /\ requests[r].pc = "generate"
  /\ LET g == GenerateAll(requests[r].summary_df, tie)
         f == SlideOrder[requests[r].slide]
     IN  IF g.exc # "" /\ f \notin g.written
         THEN /\ Finish(r, Failure(500, "Error generating slides", "", "generate"))
              /\ UNCHANGED <<slide_source, static_generated>>
         ELSE /\ slide_source' = WriteFile(slide_source, f, r)
              /\ static_generated' = static_generated \cup {f}
              /\ requests' = [requests EXCEPT
                                ![r].slide = @ + 1,
                                ![r].pc = IF requests[r].slide = Len(SlideOrder)
                                          THEN "rename" ELSE "generate"]
  /\ UNCHANGED sequentialVars

\* generate_wrapped.py 1165: os.path.exists(old_path), for the one entry of
\* file_mapping whose names differ.
rename_check_old(r) ==
  /\ pc = "threaded"
  /\ requests[r].pc = "rename"
  /\ Goto(r, IF "04_top_artists_chart.png" \in DOMAIN slide_source
             THEN "check_new" ELSE "respond")
  /\ UNCHANGED <<slide_source, static_generated>>
  /\ UNCHANGED sequentialVars

\* generate_wrapped.py 1166: os.path.exists(new_path).
rename_check_new(r) ==
  /\ pc = "threaded"
  /\ requests[r].pc = "check_new"
  /\ Goto(r, IF "04_top_artists.png" \in DOMAIN slide_source THEN "remove_new" ELSE "move")
  /\ UNCHANGED <<slide_source, static_generated>>
  /\ UNCHANGED sequentialVars

\* generate_wrapped.py 1167: os.remove(new_path) raises FileNotFoundError when the
\* file has gone since the test.
rename_remove_new(r) ==
  /\ pc = "threaded"
  /\ requests[r].pc = "remove_new"
  /\ IF "04_top_artists.png" \in DOMAIN slide_source
     THEN /\ slide_source' = RemoveFile(slide_source, "04_top_artists.png")
          /\ static_generated' = static_generated \ {"04_top_artists.png"}
          /\ Goto(r, "move")
     ELSE /\ Finish(r, Failure(500, "Error generating slides", "", "generate"))
          /\ UNCHANGED <<slide_source, static_generated>>
  /\ UNCHANGED sequentialVars

\* generate_wrapped.py 1168: shutil.move(old_path, new_path) replaces new_path and
\* raises FileNotFoundError when old_path has gone since the test.
rename_move(r) ==
  /\ pc = "threaded"
  /\ requests[r].pc = "move"
  /\ IF "04_top_artists_chart.png" \in DOMAIN slide_source
     THEN /\ slide_source' =
               WriteFile(RemoveFile(slide_source, "04_top_artists_chart.png"),
                         "04_top_artists.png", slide_source["04_top_artists_chart.png"])
          /\ static_generated' =
               (static_generated \ {"04_top_artists_chart.png"}) \cup {"04_top_artists.png"}
          /\ Goto(r, "respond")
     ELSE /\ Finish(r, Failure(500, "Error generating slides", "", "generate"))
          /\ UNCHANGED <<slide_source, static_generated>>
  /\ UNCHANGED sequentialVars

\* app.py 152-174: the response lists every .png that is in static/generated now.
request_respond(r) ==
  /\ pc = "threaded"
  /\ requests[r].pc = "respond"
  /\ IF DOMAIN slide_source = {}
     THEN Finish(r, Failure(500, "No slides were generated", "", "respond"))
     ELSE \E audio \in BOOLEAN :
            Finish(r, Success(requests[r].stats, DOMAIN slide_source,
                              audio /\ GetTopShows(requests[r].summary_df, 1, tie) # <<>>))
  /\ UNCHANGED <<slide_source, static_generated>>
  /\ UNCHANGED sequentialVars

\* The threaded server with static/generated empty and no request received.
InitConcurrent ==
  /\ pc = "threaded"
  /\ data_files = {}
  /\ raw_summary = <<>>
  /\ raw_favorites = <<>>
  /\ analyzer = "new"
  /\ summary_df = <<>>
  /\ columns = {}
  /\ favorites_df = <<>>
  /\ result = NoResult
  /\ calls = 0
  /\ tie \in TieOrders
  /\ subdir_files = {}
  /\ temp_dir = "none"
  /\ response = NoResponse
  /\ static_generated = {}
  /\ NoThreads

NextConcurrent ==
  \/ \E r \in Requests : request_received(r)
  \/ \E r \in Requests : write_slide(r)
  \/ \E r \in Requests : rename_check_old(r)
  \/ \E r \in Requests : rename_check_new(r)
  \/ \E r \in Requests : rename_remove_new(r)
  \/ \E r \in Requests : rename_move(r)
  \/ \E r \in Requests : request_respond(r)

SpecConcurrent == InitConcurrent /\ [][NextConcurrent]_vars

\* ------------------------------------ the ranked queries on logs with replays
\* Rows for the ranked queries: the first three sample rows and a session of
\* another recording of the show of row 1 (same artist, show date and venue), of
\* 3601 seconds.
QueryRow(k, sid) ==
  IF k <= 3 THEN SampleRow(k, sid)
  ELSE Session(sid, 4, 1, 1, 1, 1, TargetYear, 7, 9, 3601, 100)

QueryKinds == 1..4

QueryTables ==
  UNION {{[i \in 1..n |-> QueryRow(ks[i], i)] : ks \in [1..n -> QueryKinds]} : n \in 0..MaxRows}

InitQueries ==
  /\ data_files = RequiredFiles
  /\ raw_summary \in QueryTables
  /\ raw_favorites = <<>>
  /\ analyzer = "new"
  /\ summary_df = <<>>
  /\ columns = {}
  /\ favorites_df = <<>>
  /\ result = NoResult
  /\ calls = 0
  /\ tie \in TieOrders
  /\ ScriptOnly

NextQueries ==
  \/ load_data
  \/ get_total_listening_time
  \/ get_top_artists
  \/ get_top_listening_days
  \/ get_top_shows

SpecQueries == InitQueries /\ [][NextQueries]_vars

\* =================================================================== claims
AggregationQueries ==
  {"get_total_listening_time", "get_top_artists", "get_listening_by_day",
   "get_top_listening_days", "get_listening_by_month", "get_top_shows", "get_stats_summary"}

InsightsReturned == result.query = "get_personalized_insights" /\ result.status = "ok"

\* The insights of the returned list that carry one of the labels.
Emitted(labels) == {e \in Range(result.value) : e.label \in labels}

\* C1: every aggregation query and the insights computation, called on a session
\* table with no rows, raises EmptyDatasetError instead of returning a value or
\* raising another error.
C1_EmptyTableRaises ==
  (/\ pc = "script"
   /\ analyzer = "loaded"
   /\ summary_df = <<>>
   /\ result.query \in AggregationQueries \cup {"get_personalized_insights"})
  => (result.status = "raised" /\ result.exc = "EmptyDatasetError")

\* C2: when upload_file has returned and had created its temporary directory, the
\* directory has been deleted, whatever the exit path.
C2_TempDirDeleted == (pc = "done" /\ temp_dir # "none") => temp_dir = "deleted"

\* The number the claim gives each rule's strings.
RuleNumber(label) ==
  CASE label = "listening streak" -> 1
    [] label \in {"Morning listener", "Afternoon vibes", "Evening sessions", "Night owl"} -> 2
    [] label \in {"Weekend warrior", "Weekday listener"} -> 3
    [] label \in {"Eclectic taste", "Superfan of"} -> 4
    [] label = "marathon listening days" -> 5
    [] label = "Peak listening month" -> 6
    [] label \in {"Concert explorer", "Loyal to"} -> 7
    [] label \in {"Creature of habit", "Free spirit"} -> 8
    [] label = "Explorer mode" -> 9
    [] label \in {"Completionist", "Sampler"} -> 10
    [] label = "Epic session" -> 11
    [] label = "Deep dive" -> 12

LongestRun(rows) ==
  LET days == {r.listenedOn.doy : r \in Range(rows)}
      run(d) == CHOOSE m \in 1..Cardinality(days) :
                  /\ \A j \in 0..(m - 1) : d + j \in days
                  /\ d + m \notin days
  IN  SetMax({run(d) : d \in days})

\* C4: the streak string is emitted, with the longest run k of consecutive days,
\* if and only if k > 2.
C4_StreakRule ==
  InsightsReturned =>
    LET k == LongestRun(summary_df)
    IN  Emitted({"listening streak"}) =
          IF k > 2 THEN {Insight(1, "listening streak", k, NA)} ELSE {}

\* The streak of the days {1, 2, 3, 10} of January: 3.
C4_Witness ==
  /\ InsightsReturned
  /\ {r.listenedOn.doy : r \in Range(summary_df)} = {1, 2, 3, 10}
  /\ Emitted({"listening streak"}) = {Insight(1, "listening streak", 3, NA)}

DistinctDays(rows) == Cardinality({r.listenedOn.doy : r \in Range(rows)})

\* C5 as claimed: the discovery string is emitted if and only if the table has at
\* least 30 distinct days and more than 5 artists are new in the second half.
C5_DiscoveryFromThirtyDays ==
  InsightsReturned =>
    (Emitted({"Explorer mode"}) # {}
       <=> (DistinctDays(summary_df) >= 30 /\ NewArtists(summary_df) > 5))

\* C5 amended: the discovery string is emitted, with the number of new artists, if
\* and only if the table has more than 30 distinct days (31 or more) and more than
\* 5 artists are new in the second half.
C5_DiscoveryAboveThirtyDays ==
  InsightsReturned =>
    Emitted({"Explorer mode"}) =
      IF DistinctDays(summary_df) >= 31 /\ NewArtists(summary_df) > 5
      THEN {Insight(9, "Explorer mode", NewArtists(summary_df), NA)}
      ELSE {}

\* 31 distinct days and exactly 6 new artists: the rule speaks.
C5_Witness ==
  /\ InsightsReturned
  /\ DistinctDays(summary_df) = 31
  /\ Emitted({"Explorer mode"}) = {Insight(9, "Explorer mode", 6, NA)}

SessionsOn(rows, weekday) ==
  SelectSeq(rows, LAMBDA r : DayOfWeek(r.listenedOn.doy) = weekday)

\* C6 as claimed: get_listening_by_day on a non-empty table returns 7 rows, Monday
\* to Sunday, the weekdays without a session with a zero total and count.
C6_SevenRows ==
  (result.query = "get_listening_by_day" /\ summary_df # <<>>) =>
    /\ Len(result.value) = 7
    /\ \A d \in 1..Len(result.value) :
         /\ result.value[d].day = d - 1
         /\ result.value[d].session_count = Len(SessionsOn(summary_df, d - 1))

\* C6 amended: get_listening_by_day on a non-empty table returns one row for each
\* weekday on which a session occurred and none for the others, in the order
\* Monday..Sunday, with the total and the session count of that weekday.
C6_RowsOfDaysHeard ==
  (result.query = "get_listening_by_day" /\ summary_df # <<>>) =>
    LET v == result.value
    IN  /\ {v[i].day : i \in 1..Len(v)}
             = {DayOfWeek(r.listenedOn.doy) : r \in Range(summary_df)}
        /\ \A i, j \in 1..Len(v) : i < j => v[i].day < v[j].day
        /\ \A i \in 1..Len(v) :
             /\ v[i].session_count = Len(SessionsOn(summary_df, v[i].day))
             /\ v[i].session_count > 0
             /\ v[i].total_seconds = TotalListening(SessionsOn(summary_df, v[i].day))

\* Sessions on three different weekdays: three rows.
C6_Witness ==
  /\ result.query = "get_listening_by_day"
  /\ Len(summary_df) = 3
  /\ Len(result.value) = 3

\* C7: an aggregation query leaves the analyzer's session table as it was: the
\* same rows and the same columns after the call as before.
C7_QueriesLeaveTable ==
  [][(/\ pc = "script"
      /\ analyzer = "loaded"
      /\ calls' = calls + 1
      /\ result'.query \in AggregationQueries)
     => (summary_df' = summary_df /\ columns' = columns)]_vars

C9_OnlyTargetYear ==
  (pc = "script" /\ analyzer = "loaded") =>
    /\ Range(summary_df) = {r \in Range(raw_summary) : r.listenedOn.year = 2025}
    /\ Len(summary_df) = Cardinality({i \in 1..Len(raw_summary) : raw_summary[i].listenedOn.year = 2025})
    /\ Range(favorites_df) = {f \in Range(raw_favorites) : f.dateAdded.year = 2025}
    /\ Len(favorites_df) = Cardinality({i \in 1..Len(raw_favorites) : raw_favorites[i].dateAdded.year = 2025})
    /\ result.query = "get_stats_summary" =>
         /\ result.value.total_sessions = Cardinality({i \in 1..Len(raw_summary) : raw_summary[i].listenedOn.year = 2025})
         /\ result.value.favorite_artists_count + result.value.favorite_recordings_count
              = Cardinality({i \in 1..Len(raw_favorites) : raw_favorites[i].dateAdded.year = 2025})

\* A log with rows of 2024 and of 2025, loaded and summarised.
C9_Witness ==
  /\ analyzer = "loaded"
  /\ result.query = "get_stats_summary"
  /\ \E r \in Range(raw_summary) : r.listenedOn.year = 2024
  /\ \E f \in Range(raw_favorites) : f.dateAdded.year = 2026
  /\ Len(summary_df) = 2

SessionsBy(rows, artist) == Len(SelectSeq(rows, LAMBDA r : r.artistName = artist))

\* C10: with u distinct artists over t sessions, "Eclectic taste - u" is emitted
\* if and only if u/t > 0.5, "Superfan of A" if and only if u/t < 0.15, A being an
\* artist with the most sessions, and never both.
C10_DiversityRule ==
  InsightsReturned =>
    LET u == Cardinality({r.artistName : r \in Range(summary_df)})
        t == Len(summary_df)
    IN  /\ Emitted({"Eclectic taste"}) =
             IF 2 * u > t THEN {Insight(4, "Eclectic taste", u, NA)} ELSE {}
        /\ Emitted({"Superfan of"}) # {} <=> 100 * u < 15 * t
        /\ Cardinality(Emitted({"Superfan of"})) <= 1
        /\ \A e \in Emitted({"Superfan of"}) :
             \A r \in Range(summary_df) :
               SessionsBy(summary_df, e.name) >= SessionsBy(summary_df, r.artistName)

\* 100 sessions over 5 artists, artist 1 with 40 of them and the others with 15.
C10_Witness ==
  /\ InsightsReturned
  /\ Len(summary_df) = 100
  /\ Cardinality({r.artistName : r \in Range(summary_df)}) = 5
  /\ SessionsBy(summary_df, 1) = 40
  /\ Emitted({"Superfan of"}) = {Insight(4, "Superfan of", 0, 1)}

\* The distinct (showDate, venue) pairs among the sessions of an artist that carry
\* both fields.
ShowsHeardOf(rows, artist) ==
  Cardinality({<<rows[i].showDate, rows[i].venue>> :
                 i \in {j \in 1..Len(rows) : /\ rows[j].artistName = artist
                                              /\ rows[j].showDate # NA
                                              /\ rows[j].venue # NA}})

\* C11: "Deep dive - k different A shows" is emitted only together with
\* "Superfan of A" for the same artist A and never together with "Eclectic taste";
\* when "Superfan of A" is emitted, it is emitted if and only if the number k of
\* distinct (showDate, venue) pairs among A's sessions is greater than 10.
C11_DeepDiveRule ==
  InsightsReturned =>
    /\ Emitted({"Deep dive"}) # {} =>
         (Emitted({"Superfan of"}) # {} /\ Emitted({"Eclectic taste"}) = {})
    /\ \A s \in Emitted({"Superfan of"}) :
         Emitted({"Deep dive"}) =
           IF ShowsHeardOf(summary_df, s.name) > 10
           THEN {Insight(12, "Deep dive", ShowsHeardOf(summary_df, s.name), s.name)}
           ELSE {}

\* Eleven sessions of one artist, each of another show: the rule speaks at k = 11.
C11_Witness ==
  /\ InsightsReturned
  /\ Emitted({"Superfan of"}) = {Insight(4, "Superfan of", 0, 1)}
  /\ Emitted({"Deep dive"}) = {Insight(12, "Deep dive", 11, 1)}

\* A superfan with exactly ten shows of the artist: no deep dive.
C11_WitnessTen ==
  /\ InsightsReturned
  /\ Emitted({"Superfan of"}) # {}
  /\ \A s \in Emitted({"Superfan of"}) : ShowsHeardOf(summary_df, s.name) = 10
  /\ Emitted({"Deep dive"}) = {}

TopQueries == {"get_top_artists", "get_top_listening_days", "get_top_shows"}

TopReturned == result.query \in TopQueries /\ result.status = "ok"

\* The column a ranked query groups by.
GroupingOf(q) ==
  CASE q = "get_top_artists" -> "artistName"
    [] q = "get_top_listening_days" -> "date"
    [] q = "get_top_shows" -> "show_id"

\* The group a row of a ranked result stands for.
GroupOfRow(q, row) ==
  CASE q = "get_top_artists" -> row.artistName
    [] q = "get_top_listening_days" -> row.date
    [] q = "get_top_shows" ->
         KeyOf([artistName |-> row.artist, showDate |-> row.date, venue |-> row.venue,
                location |-> row.location, recordingIdentifier |-> row.recording_id],
               "show_id")

\* The groups of the session table under a grouping, and what each sums to.
GroupsOf(rows, key) == {KeyOf(rows[i], key) : i \in 1..Len(rows)} \ {NA}

SessionsOfGroup(rows, key, k) == {i \in 1..Len(rows) : KeyOf(rows[i], key) = k}

RECURSIVE SumOfSessions(_, _)
SumOfSessions(rows, idx) ==
  IF idx = {} THEN 0
  ELSE LET i == CHOOSE j \in idx : TRUE
       IN  ListeningTime(rows[i]) + SumOfSessions(rows, idx \ {i})

GroupTotal(rows, key, k) == SumOfSessions(rows, SessionsOfGroup(rows, key, k))

\* C12: a ranked query called with limit n returns at most n rows, each a group
\* with its summed effective seconds, in non-increasing order of that sum, and no
\* group left out sums to more than a group returned.
C12_TopN ==
  TopReturned =>
    LET v == result.value
        key == GroupingOf(result.query)
        kept == {GroupOfRow(result.query, v[i]) : i \in 1..Len(v)}
    IN  /\ Len(v) <= result.n
        /\ kept \subseteq GroupsOf(summary_df, key)
        /\ \A i \in 1..Len(v) :
             v[i].total_seconds = GroupTotal(summary_df, key, GroupOfRow(result.query, v[i]))
        /\ \A i, j \in 1..Len(v) : i < j => v[i].total_seconds >= v[j].total_seconds
        /\ \A k \in GroupsOf(summary_df, key) \ kept :
             \A i \in 1..Len(v) : GroupTotal(summary_df, key, k) <= v[i].total_seconds

\* Three days of different totals and a limit of 2: the two larger ones, in order.
C12_Witness ==
  /\ result.query = "get_top_listening_days"
  /\ result.n = 2
  /\ Cardinality(GroupsOf(summary_df, "date")) = 3
  /\ Len(result.value) = 2
  /\ result.value[1].total_seconds > result.value[2].total_seconds
  /\ \E k \in GroupsOf(summary_df, "date") :
       GroupTotal(summary_df, "date", k) < result.value[2].total_seconds

\* C13: get_top_artists(n) with n the number of distinct artists returns every
\* artist exactly once, with the number of the artist's sessions as session_count.
C13_EveryArtistOnce ==
  (/\ result.query = "get_top_artists"
   /\ result.status = "ok"
   /\ result.n = Cardinality(GroupsOf(summary_df, "artistName"))) =>
    LET v == result.value
    IN  /\ Len(v) = result.n
        /\ {v[i].artistName : i \in 1..Len(v)} = GroupsOf(summary_df, "artistName")
        /\ \A i \in 1..Len(v) :
             v[i].session_count = SessionsBy(summary_df, v[i].artistName)

\* Two artists, one of them with two sessions, and n = 2.
C13_Witness ==
  /\ result.query = "get_top_artists"
  /\ result.n = 2
  /\ Cardinality(GroupsOf(summary_df, "artistName")) = 2
  /\ Len(summary_df) = 3
  /\ Len(result.value) = 2

\* The position in the session table of the first session of a group.
FirstSeen(rows, key, k) == SetMin(SessionsOfGroup(rows, key, k))

\* C14: in a ranked result two groups of equal sum stand in the order in which
\* their first sessions appear in the input, and a group left out by the limit
\* that ties with a group returned was first seen later than it.
C14_TiesByFirstEncounter ==
  TopReturned =>
    LET v == result.value
        key == GroupingOf(result.query)
        kept == {GroupOfRow(result.query, v[i]) : i \in 1..Len(v)}
        seen(k) == FirstSeen(summary_df, key, k)
    IN  /\ \A i, j \in 1..Len(v) :
             (i < j /\ v[i].total_seconds = v[j].total_seconds) =>
               seen(GroupOfRow(result.query, v[i])) < seen(GroupOfRow(result.query, v[j]))
        /\ \A k \in GroupsOf(summary_df, key) \ kept :
             \A i \in 1..Len(v) :
               GroupTotal(summary_df, key, k) = v[i].total_seconds =>
                 seen(GroupOfRow(result.query, v[i])) < seen(k)

\* The sessions of a show: same artist, show date and venue.
ListensOf(rows, artist, date, venue) ==
  {i \in 1..Len(rows) : /\ rows[i].artistName = artist
                         /\ rows[i].showDate = date
                         /\ rows[i].venue = venue}

\* C15: get_top_shows has one row per (artist, showDate, venue): no two rows of a
\* result are of the same show, and a row counts and sums all sessions of its show.
C15_OneRowPerShow ==
  (result.query = "get_top_shows" /\ result.status = "ok") =>
    LET v == result.value
    IN  /\ \A i, j \in 1..Len(v) :
             i # j => <<v[i].artist, v[i].date, v[i].venue>> # <<v[j].artist, v[j].date, v[j].venue>>
        /\ \A i \in 1..Len(v) :
             LET listens == ListensOf(summary_df, v[i].artist, v[i].date, v[i].venue)
             IN  /\ v[i].listen_count = Cardinality(listens)
                 /\ v[i].total_seconds = SumOfSessions(summary_df, listens)

\* Every file name generate_all writes.
SlideFiles == AllSlides \cup {"04_top_artists_chart.png"}

\* C16: a request that has returned either succeeded, having loaded, summarised
\* and generated without error, with stats and slides in its response, or failed
\* with neither stats nor slides; and a generation that fails makes no slide
\* servable that was not servable before it.
C16_CompletesOrFailsOutright ==
  /\ [](pc = "done" =>
          IF response.success
          THEN /\ response.at = "respond"
               /\ analyzer = "loaded"
               /\ response.has_stats
               /\ response.slides # {}
               /\ GenerateAll(summary_df, tie).exc = ""
          ELSE /\ ~response.has_stats
               /\ response.slides = {})
  /\ [][(pc = "generate" /\ response'.at = "generate") =>
          \A f \in SlideFiles : ServeSlide(f) = 404 => ServeSlide(f)' = 404]_vars

\* C17: when a request has returned, the slides that can be served are those the
\* same upload leaves on a server that has processed no request before: the ones
\* generate_all wrote for it, and none if the request did not get to generate;
\* a successful response lists exactly these.
C17_NoStateBetweenRuns ==
  pc = "done" =>
    LET own == IF response.at \in {"generate", "respond"}
               THEN GenerateAll(summary_df, tie).written \ GenerateAll(summary_df, tie).removed
               ELSE {}
    IN  /\ \A f \in SlideFiles : ServeSlide(f) = 200 <=> f \in own
        /\ response.success => response.slides = own

TotalReturned == result.query = "get_total_listening_time" /\ result.status = "ok"

\* The sum over all sessions of duration * percentListenedTo, unclamped, in
\* hundredths of a second.
EffectiveTotal(rows) == SumOfSessions(rows, 1..Len(rows))

\* |a - b|
Distance(a, b) == IF a >= b THEN a - b ELSE b - a

\* C18 as claimed: on a non-empty table total_minutes is exactly the unclamped sum
\* of duration * percentListenedTo divided by 60, total_hours is total_minutes / 60
\* and total_days is total_hours / 24 (figures in hundredths).
C18_ExactTotals ==
  (TotalReturned /\ summary_df # <<>>) =>
    /\ result.value.total_minutes * 60 = EffectiveTotal(summary_df)
    /\ result.value.total_hours * 60 = result.value.total_minutes
    /\ result.value.total_days * 24 = result.value.total_hours

\* C18 amended: on a non-empty table total_minutes, total_hours and total_days are
\* the unclamped sum of duration * percentListenedTo divided by 60, by 3600 and by
\* 86400, each rounded to the nearest hundredth.
C18_RoundedTotals ==
  (TotalReturned /\ summary_df # <<>>) =>
    /\ 2 * Distance(result.value.total_minutes * 60, EffectiveTotal(summary_df)) <= 60
    /\ 2 * Distance(result.value.total_hours * 3600, EffectiveTotal(summary_df)) <= 3600
    /\ 2 * Distance(result.value.total_days * 86400, EffectiveTotal(summary_df)) <= 86400

\* A session heard to 120% and one of 3601 seconds: 96.02 minutes for 5761 seconds.
C18_Witness ==
  /\ TotalReturned
  /\ Len(summary_df) = 2
  /\ \E r \in Range(summary_df) : r.percentListenedTo > 100
  /\ EffectiveTotal(summary_df) = 576100
  /\ result.value.total_minutes = 9602

HourLabels == {"Morning listener", "Afternoon vibes", "Evening sessions", "Night owl"}

\* The number of sessions that start in hour h.
SessionsAtHour(rows, h) == Cardinality({i \in 1..Len(rows) : rows[i].listenedOn.hour = h})

\* C19: a returned list of a table with at least one session holds exactly one
\* favorite-hour string; its hour h is a most frequent start hour and its label is
\* Morning for 5 <= h < 12, Afternoon for 12 <= h < 17, Evening for 17 <= h < 21
\* and Night owl otherwise.
C19_FavoriteHourRule ==
  (InsightsReturned /\ summary_df # <<>>) =>
    /\ Cardinality(Emitted(HourLabels)) = 1
    /\ Len(SelectSeq(result.value, LAMBDA e : e.label \in HourLabels)) = 1
    /\ \A e \in Emitted(HourLabels) :
         /\ e.num \in 0..23
         /\ \A h \in 0..23 :
              SessionsAtHour(summary_df, e.num) >= SessionsAtHour(summary_df, h)
         /\ e.label = IF e.num \in 5..11 THEN "Morning listener"
                      ELSE IF e.num \in 12..16 THEN "Afternoon vibes"
                      ELSE IF e.num \in 17..20 THEN "Evening sessions"
                      ELSE "Night owl"

\* Most sessions at 21:00, the others at 10:00: a night owl with peak 21.
C19_Witness ==
  /\ InsightsReturned
  /\ SessionsAtHour(summary_df, 21) > SessionsAtHour(summary_df, 10)
  /\ SessionsAtHour(summary_df, 10) > 0
  /\ Emitted(HourLabels) = {Insight(2, "Night owl", 21, NA)}

\* A peak at 12:00 is an afternoon, a peak at 5:00 a morning.
C19_WitnessBounds ==
  /\ InsightsReturned
  /\ Emitted(HourLabels) \in {{Insight(2, "Afternoon vibes", 12, NA)},
                               {Insight(2, "Morning listener", 5, NA)}}

\* The sessions on a Saturday or a Sunday.
WeekendSessions(rows) ==
  Cardinality({i \in 1..Len(rows) : DayOfWeek(rows[i].listenedOn.doy) \in {5, 6}})

\* C20: with w of the t sessions on Saturday or Sunday, "Weekend warrior" is
\* emitted if and only if w/t > 60%, "Weekday listener" if and only if w/t < 30%,
\* nothing from 30% to 60% (both included), and never both.
C20_WeekendRule ==
  InsightsReturned =>
    LET w == WeekendSessions(summary_df)
        t == Len(summary_df)
    IN  /\ Emitted({"Weekend warrior"}) =
             IF 100 * w > 60 * t THEN {Insight(3, "Weekend warrior", w, NA)} ELSE {}
        /\ Emitted({"Weekday listener"}) =
             IF 100 * w < 30 * t THEN {Insight(3, "Weekday listener", t - w, NA)} ELSE {}
        /\ Cardinality(Emitted({"Weekend warrior", "Weekday listener"})) <= 1

\* Exactly 60% (3 of 5) and exactly 30% (6 of 20) on the weekend: no string.
C20_Witness ==
  /\ InsightsReturned
  /\ \/ Len(summary_df) = 5 /\ WeekendSessions(summary_df) = 3
     \/ Len(summary_df) = 20 /\ WeekendSessions(summary_df) = 6
  /\ Emitted({"Weekend warrior", "Weekday listener"}) = {}

\* Two of three sessions on the weekend: a weekend warrior.
C20_WitnessWarrior ==
  /\ InsightsReturned
  /\ Len(summary_df) = 3
  /\ WeekendSessions(summary_df) = 2
  /\ Emitted({"Weekend warrior"}) # {}

\* The sessions of a calendar day and the days that sum to more than 4 hours
\* (14400 seconds, in hundredths).
SessionsOfDay(rows, d) == {i \in 1..Len(rows) : rows[i].listenedOn.doy = d}

MarathonDays(rows) ==
  {d \in {rows[i].listenedOn.doy : i \in 1..Len(rows)} :
     SumOfSessions(rows, SessionsOfDay(rows, d)) > 1440000}

\* C21: the marathon string is emitted if and only if some day sums to strictly
\* more than 4 hours of effective time; it reports the number of such days and the
\* largest total of a day.
C21_MarathonRule ==
  InsightsReturned =>
    Emitted({"marathon listening days"}) =
      IF MarathonDays(summary_df) # {}
      THEN {Insight(5, "marathon listening days", Cardinality(MarathonDays(summary_df)),
                    SetMax({SumOfSessions(summary_df, SessionsOfDay(summary_df, d)) :
                              d \in {r.listenedOn.doy : r \in Range(summary_df)}}))}
      ELSE {}

\* Two days of 4 hours and 2 seconds each and a third, shorter day.
C21_Witness ==
  /\ InsightsReturned
  /\ Cardinality({r.listenedOn.doy : r \in Range(summary_df)}) = 3
  /\ Emitted({"marathon listening days"}) = {Insight(5, "marathon listening days", 2, 1440200)}

\* A day of exactly 4 hours: no string.
C21_WitnessFourHours ==
  /\ InsightsReturned
  /\ \E d \in 1..366 : SumOfSessions(summary_df, SessionsOfDay(summary_df, d)) = 1440000
  /\ Emitted({"marathon listening days"}) = {}

\* The distinct venues of the table and the sessions at a venue.
Venues(rows) == {rows[i].venue : i \in 1..Len(rows)} \ {NA}

SessionsAt(rows, venue) == Cardinality({i \in 1..Len(rows) : rows[i].venue = venue})

\* C22: on a non-empty table with v distinct venues the insights are returned and
\* hold "Concert explorer - v" if and only if v > 20, "Loyal to V" if and only if
\* v < 5, V being a venue with the most sessions, and neither from 5 to 20.
C22_VenueRule ==
  (result.query = "get_personalized_insights" /\ summary_df # <<>>) =>
    LET v == Cardinality(Venues(summary_df))
    IN  /\ result.status = "ok"
        /\ Emitted({"Concert explorer"}) =
             IF v > 20 THEN {Insight(7, "Concert explorer", v, NA)} ELSE {}
        /\ Emitted({"Loyal to"}) # {} <=> v < 5
        /\ \A e \in Emitted({"Loyal to"}) :
             /\ e.name \in Venues(summary_df)
             /\ \A w \in Venues(summary_df) :
                  SessionsAt(summary_df, e.name) >= SessionsAt(summary_df, w)

\* The sessions heard to more than 0.8.
HeardFully(rows) == Cardinality({i \in 1..Len(rows) : rows[i].percentListenedTo > 80})

\* C23: with h of the t sessions heard to strictly more than 0.8, "Completionist"
\* is emitted if and only if h/t > 75%, "Sampler" if and only if h/t < 25%, and
\* nothing from 25% to 75%.
C23_CompletionRule ==
  InsightsReturned =>
    LET h == HeardFully(summary_df)
        t == Len(summary_df)
    IN  /\ Emitted({"Completionist"}) =
             IF 100 * h > 75 * t THEN {Insight(10, "Completionist", h, NA)} ELSE {}
        /\ Emitted({"Sampler"}) =
             IF 100 * h < 25 * t THEN {Insight(10, "Sampler", t - h, NA)} ELSE {}

\* Every session heard to exactly 0.8: none counts, a sampler.
C23_Witness ==
  /\ InsightsReturned
  /\ Len(summary_df) >= 3
  /\ \A r \in Range(summary_df) : r.percentListenedTo = 80
  /\ Emitted({"Sampler"}) = {Insight(10, "Sampler", Len(summary_df), NA)}

\* Exactly 75% (3 of 4) or exactly 25% (1 of 4) heard to more than 0.8: no string.
C23_WitnessBounds ==
  /\ InsightsReturned
  /\ Len(summary_df) = 4
  /\ HeardFully(summary_df) \in {1, 3}
  /\ Emitted({"Completionist", "Sampler"}) = {}

\* n (n - 1) times the sample variance of the start hours: with m the mean,
\* n * sum (h - m)^2 = n * sum h^2 - (sum h)^2, here summed over pairs of sessions.
PairwiseSquares(rows) ==
  LET n == Len(rows)
      sq(i, j) == (rows[i].listenedOn.hour - rows[j].listenedOn.hour)
                    * (rows[i].listenedOn.hour - rows[j].listenedOn.hour)
  IN  SumSeq([i \in 1..n |-> SumSeq([j \in 1..n |-> IF i < j THEN sq(i, j) ELSE 0])])

\* C24: with s the (sample) standard deviation of the start hours, "Creature of
\* habit" is emitted if and only if s < 3, "Free spirit" if and only if s > 6, and
\* nothing from 3 to 6 or for a single session, where s is undefined.
C24_ScheduleRule ==
  InsightsReturned =>
    LET n == Len(summary_df)
        d == PairwiseSquares(summary_df)
    IN  /\ Emitted({"Creature of habit"}) =
             IF n >= 2 /\ d < 9 * n * (n - 1)
             THEN {Insight(8, "Creature of habit", 0, NA)} ELSE {}
        /\ Emitted({"Free spirit"}) =
             IF n >= 2 /\ d > 36 * n * (n - 1)
             THEN {Insight(8, "Free spirit", 0, NA)} ELSE {}

\* The hours 6, 9, 12 (s = 3) and 3, 9, 15 (s = 6): no string.
C24_Witness ==
  /\ InsightsReturned
  /\ Len(summary_df) = 3
  /\ PairwiseSquares(summary_df) \in {9 * 3 * 2, 36 * 3 * 2}
  /\ Emitted({"Creature of habit", "Free spirit"}) = {}

\* A single session: no string.
C24_WitnessSingle ==
  /\ InsightsReturned
  /\ Len(summary_df) = 1
  /\ Emitted({"Creature of habit", "Free spirit"}) = {}

\* C25: "Epic session" is emitted, with the longest raw duration, if and only if
\* that duration is strictly greater than 7200 seconds, whatever the effective
\* times duration * percentListenedTo are.
C25_LongestSessionRule ==
  InsightsReturned =>
    LET longest == CHOOSE x \in {r.duration : r \in Range(summary_df)} :
                     \A r \in Range(summary_df) : r.duration <= x
    IN  Emitted({"Epic session"}) =
          IF longest > 7200 THEN {Insight(11, "Epic session", longest, NA)} ELSE {}

\* Sessions of exactly 7200 seconds heard to 120%: 8640 effective seconds, no string.
C25_Witness ==
  /\ InsightsReturned
  /\ \A r \in Range(summary_df) : r.duration = 7200 /\ r.percentListenedTo = 120
  /\ summary_df # <<>>
  /\ Emitted({"Epic session"}) = {}

\* A session of 7201 seconds: the string.
C25_WitnessEpic ==
  /\ InsightsReturned
  /\ Emitted({"Epic session"}) = {Insight(11, "Epic session", 7201, NA)}

\* The number of distinct dates of the table that lie before date d.
DaysBefore(rows, d) == Cardinality({r.listenedOn.doy : r \in Range(rows)} \cap (0..(d - 1)))

\* The sessions dated before the date at index d // 2 of the d sorted distinct
\* dates (the dates with fewer than d // 2 dates before them), and the others.
EarlySessions(rows) ==
  {r \in Range(rows) : DaysBefore(rows, r.listenedOn.doy) < DistinctDays(rows) \div 2}

LateSessions(rows) ==
  {r \in Range(rows) : DaysBefore(rows, r.listenedOn.doy) >= DistinctDays(rows) \div 2}

\* C26: when the discovery rule is evaluated (more than 30 distinct dates d), its
\* first half is the sessions dated before the date at index d // 2 and its second
\* half the sessions dated on or after it: the halves partition the table, the
\* first covers d // 2 distinct days and the second the remaining ones, one more
\* for odd d, and the new artists are counted between these halves.
C26_DiscoverySplit ==
  (InsightsReturned /\ DistinctDays(summary_df) > 30) =>
    LET first == FirstHalf(summary_df)
        second == SecondHalf(summary_df)
        d == DistinctDays(summary_df)
        new == Cardinality({r.artistName : r \in LateSessions(summary_df)}
                             \ {r.artistName : r \in EarlySessions(summary_df)})
    IN  /\ Range(first) = EarlySessions(summary_df)
        /\ Range(second) = LateSessions(summary_df)
        /\ Range(first) \cap Range(second) = {}
        /\ Len(first) + Len(second) = Len(summary_df)
        /\ DistinctDays(first) = d \div 2
        /\ DistinctDays(second) = d - (d \div 2)
        /\ d % 2 = 1 => DistinctDays(second) = DistinctDays(first) + 1
        /\ Emitted({"Explorer mode"}) =
             IF new > 5 THEN {Insight(9, "Explorer mode", new, NA)} ELSE {}

\* 31 distinct dates: 15 in the first half and 16 in the second.
C26_Witness ==
  /\ InsightsReturned
  /\ DistinctDays(summary_df) = 31
  /\ DistinctDays(FirstHalf(summary_df)) = 15
  /\ DistinctDays(SecondHalf(summary_df)) = 16
  /\ Emitted({"Explorer mode"}) # {}

\* C28: an upload that holds ListeningHistorySummary.tsv, in the root of the
\* extracted data directory or below it, is not answered with the 400 "Could not
\* find ListeningHistorySummary.tsv", wherever the other two files are.
C28_SummaryFoundAnywhere ==
  (pc = "done" /\ response.at = "verify") =>
    "ListeningHistorySummary.tsv" \notin data_files \cup subdir_files

\* What a query returns or raises as the first call on an analyzer that has just
\* loaded the input files.
FirstCall(q, n) ==
  LET fresh == LoadData(data_files, raw_summary, raw_favorites)
      insights == GetPersonalizedInsights(fresh.summary, tie)
  IN  CASE q = "get_total_listening_time" ->
             Returned(q, n, CalculateTotalMinutes(fresh.summary))
        [] q = "get_top_artists" -> Returned(q, n, GetTopArtists(fresh.summary, n, tie))
        [] q = "get_listening_by_day" -> Returned(q, n, GetListeningByDay(fresh.summary))
        [] q = "get_top_listening_days" ->
             Returned(q, n, GetTopListeningDays(fresh.summary, n, tie))
        [] q = "get_listening_by_month" -> Returned(q, n, GetListeningByMonth(fresh.summary))
        [] q = "get_top_shows" -> Returned(q, n, GetTopShows(fresh.summary, n, tie))
        [] q = "get_stats_summary" ->
             Returned(q, n, GetStatsSummary(fresh.summary, fresh.favorites))
        [] q = "get_personalized_insights" ->
             IF insights.exc = "" THEN Returned(q, n, insights.insights)
             ELSE Raised(q, n, insights.exc, <<>>)

RECURSIVE SumOfRows(_, _)
SumOfRows(v, field) ==
  IF v = <<>> THEN 0 ELSE Head(v)[field] + SumOfRows(Tail(v), field)

GroupedQueries ==
  {"get_top_artists", "get_top_listening_days", "get_top_shows", "get_listening_by_day",
   "get_listening_by_month"}

\* The column a grouped query groups by and the field its rows count sessions in.
GroupedBy(q) ==
  CASE q \in TopQueries -> GroupingOf(q)
    [] q = "get_listening_by_day" -> "day_of_week"
    [] q = "get_listening_by_month" -> "year_month"

CountField(q) == IF q = "get_top_shows" THEN "listen_count" ELSE "session_count"

\* C30: on a non-empty table each grouped query (the ranked ones with a limit of at
\* least the number of groups) counts every session in exactly one row: the row
\* counts sum to the number of sessions and the row totals to the total effective
\* seconds, sessions without venue or location included.
C30_Conservation ==
  (/\ result.query \in GroupedQueries
   /\ result.status = "ok"
   /\ summary_df # <<>>
   /\ result.query \in TopQueries =>
        result.n >= Cardinality(GroupsOf(summary_df, GroupedBy(result.query)))) =>
    /\ SumOfRows(result.value, CountField(result.query)) = Len(summary_df)
    /\ SumOfRows(result.value, "total_seconds") = EffectiveTotal(summary_df)

\* C27: with two uploads handled at the same time, a request that is about to list
\* static/generated finds only slides rendered from its own upload there, and the
\* names a successful response lists keep holding that request's slides.
C27_OwnSlidesOnly ==
  \A r \in Requests :
    /\ requests[r].pc = "respond" =>
         \A f \in DOMAIN slide_source : slide_source[f] = r
    /\ (requests[r].pc = "done" /\ requests[r].response.success) =>
         \A f \in requests[r].response.slides :
           f \in DOMAIN slide_source /\ slide_source[f] = r

====
